---- MODULE Spec2Model ----
(***************************************************************************)
(* A model of the ads1110-async driver (src/src/lib.rs, src/src/config.rs):*)
(* the register codec, the address table and the driver's four async       *)
(* operations, each split at its await points (bus transaction issued /    *)
(* completed, timer started / fired).  The I2C bus and the device behind   *)
(* it are the environment: every read may fail or return any buffer drawn  *)
(* from the input sets below, every write may fail or succeed.             *)
(***************************************************************************)
EXTENDS Integers, Sequences, FiniteSets, TLC

(***************************************************************************)
(* Bounds and input sets                                                   *)
(***************************************************************************)

\* Cap on the read transactions of one call.  The poll loop of read_value_raw
\* is a bare `loop`; the cap only keeps the model finite and is never the
\* reason a call of the driver stops.
MaxReads == 8

\* Status/config bytes the bus may return: every rate, gain and mode occurs,
\* each with DataReady fresh (bit 7 = 0) and stale (bit 7 = 1), one pair with
\* the unused bits 6:5 set.
ConfigBytes == {12, 140, 16, 144, 31, 159, 101, 229, 10, 138}

\* Data words (data_hi, data_lo) the bus may return.
DataWords == {<<0, 0>>, <<16, 0>>, <<1, 2>>, <<127, 255>>, <<128, 1>>, <<255, 255>>}

\* Transport errors of the I2C implementation.
BusErrors == {"Nack", "ArbitrationLoss"}

\* Bus handles (values of the type parameter I).
Handles == {"i2c0"}

\* Address identifiers the caller passes to new(): both ends of the table.
Parts == {"A0", "A7"}

NoBus == "NoBus"
NoDrv == [addr |-> 0, sc |-> "None", dr |-> "None", pga |-> "None"]
NoBuf == <<>>
NoArg == [start |-> "None", sc |-> "None", dr |-> "None", pga |-> "None"]
NoFields == [sc |-> "None", dr |-> "None", pga |-> "None"]
NoResult == [kind |-> "None"]

(***************************************************************************)
(* config.rs: types                                                        *)
(***************************************************************************)

Address == {"A0", "A1", "A2", "A3", "A4", "A5", "A6", "A7"}
DataRate == {"Sps15", "Sps30", "Sps60", "Sps240"}
Start == {"DontStart", "StartConversion"}
DataReady == {"FreshData", "StaleData"}
ConversionMode == {"Continuous", "OneShot"}
Gain == {"X1", "X2", "X4", "X8"}
WriteSettings == [start : Start, sc : ConversionMode, dr : DataRate, pga : Gain]
ReadSettings == [n_drdy : DataReady, sc : ConversionMode, dr : DataRate, pga : Gain]

(***************************************************************************)
(* u8 bit operations                                                       *)
(***************************************************************************)

RECURSIVE BitAnd(_, _)
BitAnd(a, b) ==
    IF a = 0 \/ b = 0 THEN 0
    ELSE (a % 2) * (b % 2) + 2 * BitAnd(a \div 2, b \div 2)

RECURSIVE BitOr(_, _)
BitOr(a, b) ==
    IF a = 0 THEN b
    ELSE IF b = 0 THEN a
    ELSE (IF (a % 2) + (b % 2) > 0 THEN 1 ELSE 0) + 2 * BitOr(a \div 2, b \div 2)

(***************************************************************************)
(* config.rs: Address::into_addr                                           *)
(***************************************************************************)

into_addr_repeated(a) ==
    CASE a = "A0" -> 72
      [] a = "A1" -> 73
      [] a = "A2" -> 74
      [] a = "A3" -> 75
      [] a = "A4" -> 76
      [] a = "A5" -> 77
      [] a = "A6" -> 78
      [] a = "A7" -> 78

into_addr(a) ==
    CASE a = "A0" -> 72
      [] a = "A1" -> 73
      [] a = "A2" -> 74
      [] a = "A3" -> 75
      [] a = "A4" -> 76
      [] a = "A5" -> 77
      [] a = "A6" -> 78
      [] a = "A7" -> 79

(***************************************************************************)
(* config.rs: DataRate::interval, DataRate::quarter_interval (microseconds)*)
(***************************************************************************)

interval(dr) ==
    CASE dr = "Sps15" -> 66667
      [] dr = "Sps30" -> 33333
      [] dr = "Sps60" -> 16667
      [] dr = "Sps240" -> 4167

quarter_interval(dr) ==
    CASE dr = "Sps15" -> 16667
      [] dr = "Sps30" -> 8333
      [] dr = "Sps60" -> 4167
      [] dr = "Sps240" -> 1042

(***************************************************************************)
(* config.rs: WriteSettings::to_value                                      *)
(***************************************************************************)

StartBits(s) == IF s = "StartConversion" THEN 128 ELSE 0

ModeBitsBit5(sc) == IF sc = "OneShot" THEN 32 ELSE 0

ModeBits(sc) == IF sc = "OneShot" THEN 16 ELSE 0

RateBitsSwapped(dr) ==
    CASE dr = "Sps15" -> 0
      [] dr = "Sps30" -> 4
      [] dr = "Sps60" -> 8
      [] dr = "Sps240" -> 12

RateBits(dr) ==
    CASE dr = "Sps15" -> 12
      [] dr = "Sps30" -> 8
      [] dr = "Sps60" -> 4
      [] dr = "Sps240" -> 0

GainBits(pga) ==
    CASE pga = "X1" -> 0
      [] pga = "X2" -> 1
      [] pga = "X4" -> 2
      [] pga = "X8" -> 3

to_value(w) ==
    BitOr(BitOr(BitOr(BitOr(0, StartBits(w.start)), ModeBits(w.sc)), RateBits(w.dr)),
          GainBits(w.pga))

(***************************************************************************)
(* config.rs: impl From<u8> for ReadSettings                               *)
(***************************************************************************)

DecodeDrdy(value) ==
    IF BitAnd(value, 128) = 0 THEN "FreshData" ELSE "StaleData"

DecodeMode(value) ==
    IF BitAnd(value, 16) = 0 THEN "Continuous" ELSE "OneShot"

DecodeRateUnshifted(value) ==
    LET m == BitAnd(value, 12) IN
    CASE m = 0 -> "Sps240"
      [] m = 1 -> "Sps60"
      [] m = 2 -> "Sps30"
      [] m = 3 -> "Sps15"
      [] OTHER -> "unreachable"

DecodeRate(value) ==
    LET m == BitAnd(value, 12) IN
    CASE m = 0 -> "Sps240"
      [] m = 4 -> "Sps60"
      [] m = 8 -> "Sps30"
      [] m = 12 -> "Sps15"
      [] OTHER -> "unreachable"

DecodeGain(value) ==
    LET m == BitAnd(value, 3) IN
    CASE m = 0 -> "X1"
      [] m = 1 -> "X2"
      [] m = 2 -> "X4"
      [] m = 3 -> "X8"
      [] OTHER -> "unreachable"

ReadSettingsFrom(value) ==
    [n_drdy |-> DecodeDrdy(value), sc |-> DecodeMode(value),
     dr |-> DecodeRate(value), pga |-> DecodeGain(value)]

(***************************************************************************)
(* i16 arithmetic                                                          *)
(***************************************************************************)

ToI16(u) == IF u % 65536 >= 32768 THEN (u % 65536) - 65536 ELSE u % 65536

i16_from_be_bytes(hi, lo) == ToI16(hi * 256 + lo)

Shl16(v, s) == ToI16((v % 65536) * (2 ^ s))

(***************************************************************************)
(* lib.rs: read_value_normalized, the match on self.dr                     *)
(***************************************************************************)

NormalizeByThree(raw, dr) ==
    CASE dr = "Sps15" -> raw
      [] dr = "Sps30" -> Shl16(raw, 1)
      [] dr = "Sps60" -> Shl16(raw, 2)
      [] dr = "Sps240" -> Shl16(raw, 3)

Normalize(raw, dr) ==
    CASE dr = "Sps15" -> raw
      [] dr = "Sps30" -> Shl16(raw, 1)
      [] dr = "Sps60" -> Shl16(raw, 2)
      [] dr = "Sps240" -> Shl16(raw, 4)

(***************************************************************************)
(* State                                                                   *)
(***************************************************************************)

VARIABLES
    pc,             \* where the caller / the running async fn stands
    caller_bus,     \* the bus handle the caller owns, or NoBus
    i2c,            \* the bus handle owned by new() / by the driver (Ads1110.i2c)
    drv,            \* Ads1110 { addr, sc, dr, pga }, or NoDrv
    addru8,         \* new(): local addru8
    op,             \* the public operation running or last returned
    arg,            \* write_settings(): parameter settings
    quarter_waits,  \* read_value_raw(): local quarter_waits
    timer,          \* duration (us) of the pending Timer::after, 0 if none
    buf,            \* [data_hi, data_lo, config] of the current loop iteration
    wr,             \* payload of the last write issued by the running call
    tx_addr,        \* bus address of the last transaction issued
    raw_res,        \* what read_value_raw returned
    result,         \* what the public operation returned
    stats,          \* per call: transactions issued, sleeps started, bus answers
    last_cfg,       \* mode/rate/gain of the last successful read or write
    last_set,       \* mode/rate/gain of the bootstrap read or last successful write
    dev             \* the device's configuration register, NoFields while unobserved

vars == <<pc, caller_bus, i2c, drv, addru8, op, arg, quarter_waits, timer, buf, wr,
          tx_addr, raw_res, result, stats, last_cfg, last_set, dev>>

NoStats == [reads |-> 0, writes |-> 0, qsleeps |-> 0, fulls |-> 0,
            stale |-> 0, fresh |-> 0, errs |-> 0]

Fields(r) == [sc |-> r.sc, dr |-> r.dr, pga |-> r.pga]

\* What the bus itself put in bit 7 of a status byte (1 = stale).
WireStale(c) == c >= 128

(***************************************************************************)
(* The device: an ADS1110 configuration register.  A single-byte write     *)
(* that succeeds sets its mode (bit 4), rate (bits 3:2) and gain (bits     *)
(* 1:0); every read reports them in the status/config byte.                *)
(***************************************************************************)

\* All values of a u8.
ByteValues == 0..255

DevMode(b) == IF (b \div 16) % 2 = 1 THEN "OneShot" ELSE "Continuous"

DevRate(b) ==
    CASE (b \div 4) % 4 = 3 -> "Sps15"
      [] (b \div 4) % 4 = 2 -> "Sps30"
      [] (b \div 4) % 4 = 1 -> "Sps60"
      [] (b \div 4) % 4 = 0 -> "Sps240"

DevGain(b) ==
    CASE b % 4 = 0 -> "X1"
      [] b % 4 = 1 -> "X2"
      [] b % 4 = 2 -> "X4"
      [] b % 4 = 3 -> "X8"

\* The register contents a byte on the wire stands for.
DevRegister(b) == [sc |-> DevMode(b), dr |-> DevRate(b), pga |-> DevGain(b)]

Init ==
    /\ pc = "nodrv"
    /\ caller_bus \in Handles
    /\ i2c = NoBus
    /\ drv = NoDrv
    /\ addru8 = 0
    /\ op = "none"
    /\ arg = NoArg
    /\ quarter_waits = 0
    /\ timer = 0
    /\ buf = NoBuf
    /\ wr = <<>>
    /\ tx_addr = 0
    /\ raw_res = NoResult
    /\ result = NoResult
    /\ stats = NoStats
    /\ last_cfg = NoFields
    /\ last_set = NoFields
    /\ dev = NoFields

(***************************************************************************)
(* lib.rs: Ads1110::new                                                    *)
(***************************************************************************)

\* new(i2c, addr) up to the await of get_all: the handle moves in, the
\* address is resolved and the bootstrap read is issued.
New(h, a) ==
    /\ pc = "nodrv"
    /\ caller_bus = h
    /\ pc' = "new_read"
    /\ caller_bus' = NoBus
    /\ i2c' = h
    /\ addru8' = into_addr(a)
    /\ tx_addr' = into_addr(a)
    /\ op' = "new"
    /\ arg' = NoArg
    /\ quarter_waits' = 0
    /\ buf' = NoBuf
    /\ wr' = <<>>
    /\ raw_res' = NoResult
    /\ result' = NoResult
    /\ stats' = [NoStats EXCEPT !.reads = 1]
    /\ UNCHANGED <<drv, timer, last_cfg, last_set, dev>>

NewDriverDefault(a, c) ==
    [addr |-> a, sc |-> "Continuous", dr |-> "Sps15", pga |-> "X1"]

NewDriver(a, c) ==
    [addr |-> a, sc |-> ReadSettingsFrom(c).sc, dr |-> ReadSettingsFrom(c).dr,
     pga |-> ReadSettingsFrom(c).pga]

\* The bootstrap read succeeded with data word w and status/config byte c.
NewReadOk(w, c) ==
    /\ pc = "new_read"
    /\ pc' = "returned"
    /\ buf' = <<w[1], w[2], c>>
    /\ drv' = NewDriver(addru8, c)
    /\ result' = [kind |-> "Ok"]
    /\ stats' = [stats EXCEPT !.stale = IF WireStale(c) THEN @ + 1 ELSE @,
                              !.fresh = IF WireStale(c) THEN @ ELSE @ + 1]
    /\ last_cfg' = Fields(ReadSettingsFrom(c))
    /\ last_set' = Fields(ReadSettingsFrom(c))
    /\ dev' = DevRegister(c)
    /\ UNCHANGED <<caller_bus, i2c, addru8, op, arg, quarter_waits, timer, wr, tx_addr,
                   raw_res>>

NewFailureDropsBus(h, e) == [kind |-> "Err", bus |-> NoBus, err |-> e]

NewFailure(h, e) == [kind |-> "Err", bus |-> h, err |-> e]

\* The bootstrap read failed with e: Err((i2c, e)).
NewReadErr(e) ==
    /\ pc = "new_read"
    /\ pc' = "returned"
    /\ result' = NewFailure(i2c, e)
    /\ caller_bus' = result'.bus
    /\ i2c' = NoBus
    /\ stats' = [stats EXCEPT !.errs = @ + 1]
    /\ UNCHANGED <<drv, addru8, op, arg, quarter_waits, timer, buf, wr, tx_addr, raw_res,
                   last_cfg, last_set, dev>>

(***************************************************************************)
(* lib.rs: Ads1110::write_settings                                         *)
(***************************************************************************)

\* write_settings(settings) up to the await of i2c.write.
WriteSettingsCall(s) ==
    /\ pc = "idle"
    /\ pc' = "ws_write"
    /\ op' = "write_settings"
    /\ arg' = s
    /\ wr' = <<to_value(s)>>
    /\ tx_addr' = drv.addr
    /\ quarter_waits' = 0
    /\ buf' = NoBuf
    /\ raw_res' = NoResult
    /\ result' = NoResult
    /\ stats' = [NoStats EXCEPT !.writes = 1]
    /\ UNCHANGED <<caller_bus, i2c, drv, addru8, timer, last_cfg, last_set, dev>>

StoreSettingsNoGain(d, s) == [d EXCEPT !.sc = s.sc, !.dr = s.dr]

\* self.sc = sc; self.dr = dr; self.pga = pga;
StoreSettings(d, s) == [d EXCEPT !.sc = s.sc, !.dr = s.dr, !.pga = s.pga]

WriteFailedStored(d, s) == StoreSettings(d, s)

\* The `?` after the write returns before any field is assigned.
WriteFailed(d, s) == d

\* The write succeeded: "If we succeeded, update values".
WsWriteOk ==
    /\ pc = "ws_write"
    /\ pc' = "returned"
    /\ drv' = StoreSettings(drv, arg)
    /\ result' = [kind |-> "Ok"]
    /\ last_cfg' = Fields(arg)
    /\ last_set' = Fields(arg)
    /\ dev' = DevRegister(wr[1])
    /\ UNCHANGED <<caller_bus, i2c, addru8, op, arg, quarter_waits, timer, buf, wr,
                   tx_addr, raw_res, stats>>

\* The write failed with e: the `?` returns Err(e).
WsWriteErr(e) ==
    /\ pc = "ws_write"
    /\ pc' = "returned"
    /\ drv' = WriteFailed(drv, arg)
    /\ result' = [kind |-> "Err", err |-> e]
    /\ stats' = [stats EXCEPT !.errs = @ + 1]
    /\ UNCHANGED <<caller_bus, i2c, addru8, op, arg, quarter_waits, timer, buf, wr,
                   tx_addr, raw_res, last_cfg, last_set, dev>>

(***************************************************************************)
(* lib.rs: Ads1110::read_value_raw and read_value_normalized               *)
(***************************************************************************)

\* let mut quarter_waits = 0;
InitialQuarterWaits == 0

\* quarter_waits = 4; after the coarse wait
CoarseQuarterWaits == 4

\* if quarter_waits >= 5 { return Err(Error::Timeout) }
QuarterWaitLimit == 5

AfterCoarseWaitKept(qw) == qw

\* quarter_waits after the coarse wait of OneShot mode
AfterCoarseWait(qw) == CoarseQuarterWaits

TimedOutEarly(qw) == qw >= QuarterWaitLimit - 2

TimedOutLate(qw) == qw > QuarterWaitLimit

TimedOut(qw) == qw >= QuarterWaitLimit

NeedsTriggerInverted(d) == d.sc = "Continuous"

\* if let ConversionMode::OneShot = self.sc
NeedsTrigger(d) == d.sc = "OneShot"

TriggerSettingsDefault(d) ==
    [start |-> "StartConversion", sc |-> d.sc, dr |-> "Sps15", pga |-> "X1"]

\* The WriteSettings of the trigger write.
TriggerSettings(d) ==
    [start |-> "StartConversion", sc |-> d.sc, dr |-> d.dr, pga |-> d.pga]

AfterReadRefreshed(d, c) ==
    [d EXCEPT !.sc = ReadSettingsFrom(c).sc, !.dr = ReadSettingsFrom(c).dr,
              !.pga = ReadSettingsFrom(c).pga]

\* let read = ReadSettings::from(config): only read.n_drdy is looked at, the
\* driver's fields are not assigned.
AfterRead(d, c) == d

IsFreshInverted(c) == ReadSettingsFrom(c).n_drdy = "StaleData"

\* if let DataReady::FreshData = read.n_drdy
IsFresh(c) == ReadSettingsFrom(c).n_drdy = "FreshData"

\* read_value_raw() / read_value_normalized() up to the first await: the
\* trigger write in OneShot mode, the first get_all in Continuous mode.
ReadValueCall(o) ==
    /\ pc = "idle"
    /\ op' = o
    /\ arg' = NoArg
    /\ quarter_waits' = InitialQuarterWaits
    /\ buf' = NoBuf
    /\ raw_res' = NoResult
    /\ result' = NoResult
    /\ tx_addr' = drv.addr
    /\ IF NeedsTrigger(drv)
       THEN /\ pc' = "raw_write"
            /\ wr' = <<to_value(TriggerSettings(drv))>>
            /\ stats' = [NoStats EXCEPT !.writes = 1]
       ELSE /\ pc' = "raw_read"
            /\ wr' = <<>>
            /\ stats' = [NoStats EXCEPT !.reads = 1]
    /\ UNCHANGED <<caller_bus, i2c, drv, addru8, timer, last_cfg, last_set, dev>>

\* What the public operation returns for read_value_raw's result r.
Returned(o, r, d) ==
    IF o = "read_value_normalized" /\ r.kind = "Ok"
    THEN [kind |-> "Ok", val |-> Normalize(r.val, d.dr)]
    ELSE r

RawReturnRetried(r) ==
    /\ pc' = IF r.kind = "I2c" THEN "raw_qsleep" ELSE "returned"
    /\ raw_res' = r
    /\ result' = Returned(op, r, drv)

\* read_value_raw returns r (through `?` or `return`).
RawReturn(r) ==
    /\ pc' = "returned"
    /\ raw_res' = r
    /\ result' = Returned(op, r, drv)

\* The trigger write succeeded: Timer::after(self.dr.interval()) starts.
RawWriteOk ==
    /\ pc = "raw_write"
    /\ pc' = "raw_coarse"
    /\ timer' = interval(drv.dr)
    /\ stats' = [stats EXCEPT !.fulls = @ + 1]
    /\ last_cfg' = Fields(drv)
    /\ last_set' = Fields(drv)
    /\ dev' = DevRegister(wr[1])
    /\ UNCHANGED <<caller_bus, i2c, drv, addru8, op, arg, quarter_waits, buf, wr, tx_addr,
                   raw_res, result>>

\* The trigger write failed with e: map_err(Error::I2c)?
RawWriteErr(e) ==
    /\ pc = "raw_write"
    /\ RawReturn([kind |-> "I2c", err |-> e])
    /\ stats' = [stats EXCEPT !.errs = @ + 1]
    /\ UNCHANGED <<caller_bus, i2c, drv, addru8, op, arg, quarter_waits, timer, buf, wr,
                   tx_addr, last_cfg, last_set, dev>>

\* The coarse wait is over: quarter_waits = 4 and the first get_all is issued.
RawCoarseDone ==
    /\ pc = "raw_coarse"
    /\ stats.reads < MaxReads
    /\ pc' = "raw_read"
    /\ timer' = 0
    /\ quarter_waits' = AfterCoarseWait(quarter_waits)
    /\ tx_addr' = drv.addr
    /\ stats' = [stats EXCEPT !.reads = @ + 1]
    /\ UNCHANGED <<caller_bus, i2c, drv, addru8, op, arg, buf, wr, raw_res, result,
                   last_cfg, last_set, dev>>

\* get_all succeeded with data word w and status/config byte c: return the
\* value if the data is fresh, time out if the budget is spent, else sleep a
\* quarter interval.
RawReadOk(w, c) ==
    /\ pc = "raw_read"
    /\ stats' = [stats EXCEPT !.stale = IF WireStale(c) THEN @ + 1 ELSE @,
                              !.fresh = IF WireStale(c) THEN @ ELSE @ + 1,
                              !.qsleeps = IF ~IsFresh(c) /\ ~TimedOut(quarter_waits)
                                          THEN @ + 1 ELSE @]
    /\ last_cfg' = Fields(ReadSettingsFrom(c))
    /\ drv' = AfterRead(drv, c)
    /\ IF IsFresh(c)
       THEN /\ RawReturn([kind |-> "Ok", val |-> i16_from_be_bytes(w[1], w[2])])
            /\ buf' = <<w[1], w[2], c>>
            /\ UNCHANGED <<quarter_waits, timer>>
       ELSE IF TimedOut(quarter_waits)
       THEN /\ RawReturn([kind |-> "Timeout"])
            /\ buf' = <<w[1], w[2], c>>
            /\ UNCHANGED <<quarter_waits, timer>>
       ELSE /\ pc' = "raw_qsleep"
            /\ quarter_waits' = quarter_waits + 1
            /\ timer' = quarter_interval(drv.dr)
            /\ buf' = NoBuf
            /\ UNCHANGED <<raw_res, result>>
    /\ UNCHANGED <<caller_bus, i2c, addru8, op, arg, wr, tx_addr, last_set, dev>>

\* get_all failed with e: map_err(Error::I2c)?
RawReadErr(e) ==
    /\ pc = "raw_read"
    /\ RawReturn([kind |-> "I2c", err |-> e])
    /\ stats' = [stats EXCEPT !.errs = @ + 1]
    /\ UNCHANGED <<caller_bus, i2c, drv, addru8, op, arg, quarter_waits, timer, buf, wr,
                   tx_addr, last_cfg, last_set, dev>>

\* The quarter-interval sleep is over: the loop issues the next get_all.
RawQSleepDone ==
    /\ pc = "raw_qsleep"
    /\ stats.reads < MaxReads
    /\ pc' = "raw_read"
    /\ timer' = 0
    /\ tx_addr' = drv.addr
    /\ stats' = [stats EXCEPT !.reads = @ + 1]
    /\ UNCHANGED <<caller_bus, i2c, drv, addru8, op, arg, quarter_waits, buf, wr, raw_res,
                   result, last_cfg, last_set, dev>>

(***************************************************************************)
(* lib.rs: Ads1110::release                                                *)
(***************************************************************************)

Release ==
    /\ pc = "idle"
    /\ pc' = "nodrv"
    /\ caller_bus' = i2c
    /\ i2c' = NoBus
    /\ drv' = NoDrv
    /\ addru8' = 0
    /\ op' = "release"
    /\ arg' = NoArg
    /\ quarter_waits' = 0
    /\ buf' = NoBuf
    /\ wr' = <<>>
    /\ tx_addr' = 0
    /\ raw_res' = NoResult
    /\ result' = NoResult
    /\ stats' = NoStats
    /\ last_cfg' = NoFields
    /\ last_set' = NoFields
    /\ dev' = NoFields
    /\ UNCHANGED timer

(***************************************************************************)
(* The caller                                                              *)
(***************************************************************************)

\* The caller takes the Result an operation returned; the locals of the
\* finished call are gone.  It holds a driver again, or (after a failed new)
\* only the bus.
TakeResult ==
    /\ pc = "returned"
    /\ pc' = IF drv = NoDrv THEN "nodrv" ELSE "idle"
    /\ addru8' = 0
    /\ op' = "none"
    /\ arg' = NoArg
    /\ quarter_waits' = 0
    /\ buf' = NoBuf
    /\ wr' = <<>>
    /\ raw_res' = NoResult
    /\ result' = NoResult
    /\ stats' = NoStats
    /\ UNCHANGED <<caller_bus, i2c, drv, timer, tx_addr, last_cfg, last_set, dev>>

(***************************************************************************)
(* Specifications                                                          *)
(***************************************************************************)

\* The steps that complete a pending bus transaction or a pending sleep.
Completion ==
    \/ \E w \in DataWords, c \in ConfigBytes : NewReadOk(w, c)
    \/ \E e \in BusErrors : NewReadErr(e)
    \/ WsWriteOk
    \/ \E e \in BusErrors : WsWriteErr(e)
    \/ RawWriteOk
    \/ \E e \in BusErrors : RawWriteErr(e)
    \/ RawCoarseDone
    \/ \E w \in DataWords, c \in ConfigBytes : RawReadOk(w, c)
    \/ \E e \in BusErrors : RawReadErr(e)
    \/ RawQSleepDone

\* The caller starting an operation.
Call ==
    \/ \E h \in Handles, a \in Parts : New(h, a)
    \/ \E s \in WriteSettings : WriteSettingsCall(s)
    \/ \E o \in {"read_value_raw", "read_value_normalized"} : ReadValueCall(o)
    \/ Release
    \/ TakeResult

\* The bootstrap read of new may return any status/config byte.
AnyBootstrap ==
    /\ pc = "new_read"
    /\ \E w \in DataWords, c \in ByteValues : NewReadOk(w, c)

Next == Call \/ Completion \/ AnyBootstrap

Spec == Init /\ [][Next]_vars

\* The caller of the fair specification: one part, and write_settings with
\* every mode and rate (gain and start do not steer a read).
FairSettings == {w \in WriteSettings : w.start = "DontStart" /\ w.pga = "X1"}

FairCall ==
    \/ \E h \in Handles : New(h, "A0")
    \/ \E s \in FairSettings : WriteSettingsCall(s)
    \/ \E o \in {"read_value_raw", "read_value_normalized"} : ReadValueCall(o)
    \/ Release
    \/ TakeResult

FairNext == FairCall \/ Completion

\* Every bus transaction and every sleep completes: a pending completion
\* step is eventually taken.  The caller is free to stop calling.
FairSpec == Init /\ [][FairNext]_vars /\ WF_vars(Completion)

\* The bytes with which a read of the device reports its register.
DevBytes == {b \in ByteValues : DevRegister(b) = dev}

\* The completion steps against the device: a poll read reports the register
\* (with any DataReady flag, any unused bits and any data word); the bootstrap
\* read is the first observation of the register.
DevCompletion ==
    \/ AnyBootstrap
    \/ \E e \in BusErrors : NewReadErr(e)
    \/ WsWriteOk
    \/ \E e \in BusErrors : WsWriteErr(e)
    \/ RawWriteOk
    \/ \E e \in BusErrors : RawWriteErr(e)
    \/ RawCoarseDone
    \/ /\ pc = "raw_read"
       /\ \E w \in DataWords, c \in DevBytes : RawReadOk(w, c)
    \/ \E e \in BusErrors : RawReadErr(e)
    \/ RawQSleepDone

DevNext == Call \/ DevCompletion

\* The driver against a device that keeps and reports its register.
DevSpec == Init /\ [][DevNext]_vars

(***************************************************************************)
(* Properties                                                              *)
(***************************************************************************)

ReadOp == op \in {"read_value_raw", "read_value_normalized"}

InReadSet == {"raw_write", "raw_coarse", "raw_read", "raw_qsleep"}

InRead == pc \in InReadSet

\* A read call has returned and the caller has not yet taken the result.
ReadReturned == pc = "returned" /\ ReadOp

\* The big-endian two's-complement value of two bytes, computed directly.
BeValue(hi, lo) ==
    IF hi * 256 + lo >= 32768 THEN hi * 256 + lo - 65536 ELSE hi * 256 + lo

\* C1: in Continuous mode, when every read of a call succeeds, the first n < 5
\* report Stale and read n+1 reports Fresh, the call returns Ok after exactly
\* n+1 reads and n quarter-interval sleeps, with no write and no full-interval
\* sleep; in particular the call does not give up before read n+1 is made.
C1_ContinuousFreshAfterStale ==
    (ReadReturned /\ drv.sc = "Continuous" /\ stats.errs = 0) =>
        /\ stats.fresh = 0 => stats.stale >= 5
        /\ \A n \in 0..4 :
              (stats.stale = n /\ stats.fresh = 1) =>
                  /\ raw_res.kind = "Ok"
                  /\ stats.reads = n + 1
                  /\ stats.qsleeps = n
                  /\ stats.writes = 0
                  /\ stats.fulls = 0

C1_Witness ==
    /\ ReadReturned /\ drv.sc = "Continuous" /\ stats.errs = 0
    /\ stats.stale = 4 /\ stats.fresh = 1 /\ raw_res.kind = "Ok"

\* C2: in Continuous mode, when every read of a call succeeds and reports
\* Stale, the call fails with Timeout after exactly 6 reads and 5
\* quarter-interval sleeps and no write; Timeout is never returned after
\* fewer reads, and a Continuous call never makes a 7th read.
C2_ContinuousTimeout ==
    (ReadOp /\ drv.sc = "Continuous") =>
        /\ stats.reads <= 6
        /\ (pc = "returned" /\ stats.errs = 0 /\ stats.fresh = 0) =>
              /\ raw_res.kind = "Timeout"
              /\ stats.reads = 6
              /\ stats.qsleeps = 5
              /\ stats.writes = 0
              /\ stats.fulls = 0
        /\ (pc = "returned" /\ raw_res.kind = "Timeout") =>
              /\ stats.reads = 6
              /\ stats.stale = 6
              /\ stats.qsleeps = 5

C2_Witness ==
    /\ ReadReturned /\ drv.sc = "Continuous"
    /\ raw_res.kind = "Timeout" /\ stats.stale = 6

\* C3 as stated: in OneShot mode with a successful trigger write and every
\* read Stale, the call makes one write, one full-interval sleep, then 6 reads
\* and 5 quarter-interval sleeps before Timeout (9/4 of the interval).
C3_OneShotSameBudget ==
    (ReadReturned /\ drv.sc = "OneShot" /\ stats.errs = 0 /\ stats.fresh = 0) =>
        /\ raw_res.kind = "Timeout"
        /\ stats.writes = 1
        /\ stats.fulls = 1
        /\ stats.reads = 6
        /\ stats.qsleeps = 5

\* C3 amended: in OneShot mode with a successful trigger write and every read
\* Stale, the call makes one write and one full-interval sleep, then 2 reads
\* and 1 quarter-interval sleep before Timeout: the coarse wait counts as 4
\* of the 5 quarter-intervals, so the worst-case wait is 5/4 of the interval.
C3_OneShotTimeout ==
    (ReadReturned /\ drv.sc = "OneShot" /\ stats.errs = 0 /\ stats.fresh = 0) =>
        /\ raw_res.kind = "Timeout"
        /\ stats.writes = 1
        /\ stats.fulls = 1
        /\ stats.reads = 2
        /\ stats.qsleeps = 1
        /\ 4 * stats.fulls + stats.qsleeps = 5

C3_Witness ==
    /\ ReadReturned /\ drv.sc = "OneShot" /\ stats.errs = 0 /\ stats.fresh = 0
    /\ raw_res.kind = "Timeout" /\ stats.stale = 2

\* C4: read_value_raw returns Ok(v) only when the status byte of the last
\* read has bit 7 = 0, and v is the big-endian two's-complement 16-bit value
\* of the first two bytes of that same read.
C4_NoStaleData ==
    (ReadReturned /\ raw_res.kind = "Ok") =>
        /\ Len(buf) = 3
        /\ (buf[3] \div 128) % 2 = 0
        /\ raw_res.val = BeValue(buf[1], buf[2])
        /\ stats.fresh = 1

C4_Witness ==
    /\ ReadReturned /\ raw_res.kind = "Ok"
    /\ stats.stale >= 1
    /\ buf[1] = 128 /\ buf[2] = 1 /\ raw_res.val = -32767

\* C5: provided each bus transaction and each sleep completes, every call of
\* read_value_raw returns (Ok, Timeout or a transport error) in both modes and
\* for every sequence of bus answers, and a call never issues more than one
\* write or more than 6 reads.
C5_ReadTerminates ==
    /\ [](ReadOp => (stats.writes <= 1 /\ stats.reads <= 6))
    /\ (InRead ~> (ReadReturned /\ raw_res.kind \in {"Ok", "Timeout", "I2c"}))

C5_Witness ==
    /\ ReadReturned /\ raw_res.kind = "I2c"
    /\ stats.reads = 6 /\ stats.stale = 5 /\ stats.errs = 1

\* C6: within one call of read_value_raw, in either mode and for any bus
\* behaviour, the quarter-interval sleeps plus 4 for the full-interval coarse
\* wait never exceed 5 (at most 5/4 of the sampling interval is waited).
C6_WaitBound ==
    ReadOp => stats.qsleeps + 4 * stats.fulls <= 5

C6_Witness ==
    /\ ReadReturned /\ drv.sc = "OneShot"
    /\ stats.fulls = 1 /\ stats.qsleeps = 1 /\ raw_res.kind = "Timeout"

\* C7: write_settings(s) issues exactly one single-byte write of encode(s) and
\* nothing else; the cache is untouched while the write is pending; when the
\* write fails the error is returned and mode, rate and gain are unchanged;
\* when it succeeds mode, rate and gain become s.mode, s.rate, s.gain in one
\* step, whatever s.start is.
C7_WriteSettings ==
    [][ /\ (pc = "idle" /\ pc' = "ws_write") =>
              /\ drv' = drv
              /\ wr' = <<to_value(arg')>>
              /\ tx_addr' = drv.addr
              /\ stats'.writes = 1 /\ stats'.reads = 0
        /\ pc = "ws_write" =>
              /\ pc' = "returned"
              /\ wr' = wr
              /\ stats'.writes = 1 /\ stats'.reads = 0
              /\ stats'.qsleeps = 0 /\ stats'.fulls = 0
              /\ result'.kind \in {"Ok", "Err"}
              /\ result'.kind = "Err" => (drv' = drv /\ result'.err \in BusErrors)
              /\ result'.kind = "Ok" =>
                    drv' = [addr |-> drv.addr, sc |-> arg.sc, dr |-> arg.dr,
                            pga |-> arg.pga]
      ]_vars

C7_Witness ==
    /\ pc = "returned" /\ op = "write_settings" /\ result.kind = "Err"
    /\ arg.start = "StartConversion"
    /\ drv.sc # arg.sc /\ drv.dr # arg.dr /\ drv.pga # arg.pga

\* C8 as stated: between operations the cached mode/rate/gain equal those of
\* the most recent successful bus transaction, be it a 3-byte read (decoded
\* from its status/config byte) or a write (carried by it).
C8_CacheIsLastReadOrWritten ==
    (drv # NoDrv /\ pc \in {"idle", "returned"}) => Fields(drv) = last_cfg

\* C8 amended: whenever a driver exists, the cached mode/rate/gain equal those
\* decoded from the bootstrap read of new or carried by the most recent
\* successful write (write_settings or the OneShot trigger), whichever came
\* last; the reads of read_value_raw / read_value_normalized do not refresh
\* the cache.
C8_CacheIsBootstrapOrWritten ==
    drv # NoDrv => Fields(drv) = last_set

C8_Witness ==
    /\ ReadReturned /\ raw_res.kind = "Ok"
    /\ Fields(drv) = last_set
    /\ last_cfg # last_set

\* C9: when the bootstrap read of new fails, new returns the transport error
\* together with the bus handle it was given, creates no driver and issues no
\* further bus transaction; the caller owns the handle afterwards.
C9_NewFailureReturnsBus ==
    [][ /\ (pc = "nodrv" /\ pc' = "new_read") =>
              /\ i2c' = caller_bus /\ caller_bus' = NoBus
              /\ stats'.reads = 1 /\ stats'.writes = 0
        /\ (pc = "new_read" /\ result'.kind = "Err") =>
              /\ result'.bus = i2c
              /\ result'.err \in BusErrors
              /\ caller_bus' = i2c
              /\ i2c' = NoBus
              /\ drv' = NoDrv
              /\ tx_addr' = tx_addr
              /\ stats'.reads = 1 /\ stats'.writes = 0
        /\ (pc = "returned" /\ op = "new" /\ result.kind = "Err") =>
              /\ drv' = NoDrv
              /\ caller_bus' = result.bus
              /\ pc' = "nodrv"
      ]_vars

C9_Witness ==
    /\ pc = "returned" /\ op = "new" /\ result.kind = "Err"
    /\ result.bus \in Handles /\ caller_bus = result.bus /\ drv = NoDrv

\* C10: for every WriteSettings w the driver encodes (all start x mode x rate
\* x gain of write_settings, and the trigger of a read), decoding the byte on
\* the wire yields w's mode, rate and gain; the start bit comes back only as
\* the DataReady flag.
C10_RoundTrip ==
    LET w == IF op = "write_settings" THEN arg ELSE TriggerSettings(drv)
        r == ReadSettingsFrom(wr[1])
    IN  (op \in {"write_settings", "read_value_raw", "read_value_normalized"}
         /\ Len(wr) = 1) =>
            /\ r.sc = w.sc
            /\ r.dr = w.dr
            /\ r.pga = w.pga
            /\ r.n_drdy = (IF w.start = "StartConversion" THEN "StaleData"
                           ELSE "FreshData")

C10_Witness ==
    /\ pc = "ws_write" /\ Len(wr) = 1
    /\ arg = [start |-> "StartConversion", sc |-> "OneShot", dr |-> "Sps30",
              pga |-> "X4"]

\* The left shift read_value_normalized is to apply at each rate.
ShiftFor(dr) ==
    CASE dr = "Sps15" -> 0
      [] dr = "Sps30" -> 1
      [] dr = "Sps60" -> 2
      [] dr = "Sps240" -> 4

\* v * 2^k reduced to a signed 16-bit two's-complement value.
ShiftedI16(v, k) ==
    LET u == ((v + 65536) * (2 ^ k)) % 65536
    IN  IF u >= 32768 THEN u - 65536 ELSE u

\* C11: for every raw value r the raw read returns, read_value_normalized
\* returns r shifted left by 0, 1, 2, 4 bits at the cached rate 15, 30, 60,
\* 240 sps, truncated to 16 bits (no error on the bits shifted out); the
\* shift follows the cached rate, not the rate in the byte just read, and a
\* Timeout or transport error of the raw read is passed on.
C11_Normalized ==
    (pc = "returned" /\ op = "read_value_normalized") =>
        /\ raw_res.kind = "Ok" =>
              /\ result.kind = "Ok"
              /\ result.val = ShiftedI16(raw_res.val, ShiftFor(drv.dr))
              /\ result.val \in -32768..32767
        /\ raw_res.kind # "Ok" => result = raw_res

C11_Witness ==
    /\ pc = "returned" /\ op = "read_value_normalized"
    /\ raw_res = [kind |-> "Ok", val |-> 4096]
    /\ drv.dr = "Sps240" /\ Len(buf) = 3 /\ DevRate(buf[3]) = "Sps15"
    /\ result = [kind |-> "Ok", val |-> 0]

\* The settings the running call has encoded into its write.
Encoded == IF op = "write_settings" THEN arg ELSE TriggerSettings(drv)

StartCode(w) == IF w.start = "StartConversion" THEN 1 ELSE 0

ModeCode(w) == IF w.sc = "OneShot" THEN 1 ELSE 0

RateCode(w) ==
    CASE w.dr = "Sps15" -> 3
      [] w.dr = "Sps30" -> 2
      [] w.dr = "Sps60" -> 1
      [] w.dr = "Sps240" -> 0

GainCode(w) ==
    CASE w.pga = "X1" -> 0
      [] w.pga = "X2" -> 1
      [] w.pga = "X4" -> 2
      [] w.pga = "X8" -> 3

\* C12: for every WriteSettings w the driver encodes, the byte written is
\* 128*start + 16*mode + 4*rate_code + gain_code (start 0/1, mode 0 =
\* Continuous / 1 = OneShot, rate 3, 2, 1, 0 for 15, 30, 60, 240 sps, gain 0..3
\* for x1..x8), and bits 6 and 5 of it are 0.
C12_Encoding ==
    (op \in {"write_settings", "read_value_raw", "read_value_normalized"}
     /\ Len(wr) = 1) =>
        /\ wr[1] = 128 * StartCode(Encoded) + 16 * ModeCode(Encoded)
                   + 4 * RateCode(Encoded) + GainCode(Encoded)
        /\ (wr[1] \div 32) % 4 = 0
        /\ wr[1] \in ByteValues

C12_Witness ==
    /\ pc = "ws_write" /\ wr = <<159>>
    /\ arg = [start |-> "StartConversion", sc |-> "OneShot", dr |-> "Sps15",
              pga |-> "X8"]

\* b with the unused bits 6 and 5 cleared.
ClearUnused(b) == b - 32 * ((b \div 32) % 4)

\* C13: decoding is total: whatever byte 0..255 the pending read returns,
\* ReadSettings::from yields a ReadSettings without reaching an unreachable!()
\* arm, with bit 7 as 0 = FreshData / 1 = StaleData, bit 4 as the mode, bits
\* 3:2 as the rate and bits 1:0 as the gain of the register table, and bits 6
\* and 5 change nothing; what a completed read decoded is that table entry.
C13_DecodeTotal ==
    /\ pc = "new_read" =>
          \A b \in ByteValues :
              /\ ReadSettingsFrom(b) \in ReadSettings
              /\ ReadSettingsFrom(b).n_drdy =
                     (IF (b \div 128) % 2 = 0 THEN "FreshData" ELSE "StaleData")
              /\ Fields(ReadSettingsFrom(b)) = DevRegister(b)
              /\ ReadSettingsFrom(b) = ReadSettingsFrom(ClearUnused(b))
    /\ (pc = "returned" /\ op \in {"new", "read_value_raw", "read_value_normalized"}
        /\ Len(buf) = 3) =>
          last_cfg = DevRegister(buf[3])

C13_Witness ==
    /\ pc = "returned" /\ op = "new" /\ result.kind = "Ok"
    /\ buf[3] = 239
    /\ Fields(drv) = [sc |-> "Continuous", dr |-> "Sps15", pga |-> "X8"]

\* The number i of the identifier Ai.
AddrIndex(a) ==
    CASE a = "A0" -> 0
      [] a = "A1" -> 1
      [] a = "A2" -> 2
      [] a = "A3" -> 3
      [] a = "A4" -> 4
      [] a = "A5" -> 5
      [] a = "A6" -> 6
      [] a = "A7" -> 7

\* C14: into_addr maps A0..A7 one-to-one onto 0x48..0x4F in order (Ai to
\* 0x48 + i); new issues its read at the address so resolved and stores it,
\* and every later transaction of the driver goes to that stored address,
\* which never changes while the driver exists.
C14_Address ==
    [][ /\ (pc = "nodrv" /\ pc' = "new_read") =>
              /\ \A a \in Address : into_addr(a) = 72 + AddrIndex(a)
              /\ {into_addr(a) : a \in Address} = 72..79
              /\ \A a, b \in Address : into_addr(a) = into_addr(b) => a = b
              /\ tx_addr' \in {72 + AddrIndex(a) : a \in Parts}
              /\ addru8' = tx_addr'
        /\ (pc = "new_read" /\ drv' # NoDrv) =>
              /\ drv'.addr = tx_addr
              /\ tx_addr' = tx_addr
        /\ (drv # NoDrv /\ drv' # NoDrv) =>
              /\ drv'.addr = drv.addr
              /\ tx_addr' = drv.addr
      ]_vars

C14_Witness ==
    /\ pc = "raw_read" /\ stats.reads = 2
    /\ drv.addr = 79 /\ tx_addr = 79

\* C15: read_value_raw issues a trigger write if and only if the cached mode
\* is OneShot.  In OneShot mode the write is the first transaction of the
\* call and the only write, one byte with bit 7 = 1 and the cached mode, rate
\* and gain, and a read is issued only after one sleep of the full interval
\* of the cached rate; in Continuous mode the call issues no write and starts
\* no full-interval sleep.
C15_Trigger ==
    ReadOp =>
        IF drv.sc = "OneShot"
        THEN /\ stats.writes = 1
             /\ wr = <<128 + 16 + 4 * RateCode(drv) + GainCode(drv)>>
             /\ stats.fulls <= 1
             /\ stats.reads >= 1 => stats.fulls = 1
             /\ pc = "raw_write" => (stats.reads = 0 /\ stats.fulls = 0)
             /\ pc = "raw_coarse" =>
                    (stats.reads = 0 /\ stats.fulls = 1 /\ timer = interval(drv.dr))
        ELSE /\ stats.writes = 0
             /\ stats.fulls = 0
             /\ wr = <<>>
             /\ pc \notin {"raw_write", "raw_coarse"}

C15_Witness ==
    /\ ReadOp /\ pc = "raw_coarse" /\ drv.sc = "OneShot"
    /\ wr = <<159>> /\ timer = 66667 /\ stats.reads = 0

\* C16: the quarter-interval counter of read_value_raw is 0 when the first
\* read is issued in Continuous mode and 4 when it is issued after the coarse
\* wait in OneShot mode, grows by one with each quarter-interval sleep, never
\* exceeds 5, and a read reporting Stale ends in Timeout exactly when the
\* counter is >= 5 (otherwise in a quarter-interval sleep); so in OneShot mode
\* an always-Stale bus yields Timeout after exactly 2 reads and 1
\* quarter-interval sleep.
C16_Counter ==
    [][ /\ ReadOp =>
              /\ quarter_waits <= 5
              /\ pc \in {"raw_write", "raw_coarse"} => quarter_waits = 0
              /\ pc # "raw_coarse" =>
                    quarter_waits = 4 * stats.fulls + stats.qsleeps
        /\ (pc = "idle" /\ pc' = "raw_read") => quarter_waits' = 0
        /\ (pc = "raw_coarse" /\ pc' = "raw_read") => quarter_waits' = 4
        /\ (pc = "raw_read" /\ pc' = "raw_qsleep") =>
              /\ quarter_waits' = quarter_waits + 1
              /\ stats'.qsleeps = stats.qsleeps + 1
              /\ stats'.stale = stats.stale + 1
        /\ (pc = "raw_read" /\ stats'.stale = stats.stale + 1) =>
              /\ (pc' = "returned" /\ raw_res'.kind = "Timeout") <=> quarter_waits >= 5
              /\ pc' = "raw_qsleep" <=> quarter_waits < 5
        /\ (raw_res'.kind = "Timeout" /\ raw_res.kind # "Timeout") =>
              (pc = "raw_read" /\ stats'.stale = stats.stale + 1)
        /\ (ReadReturned /\ drv.sc = "OneShot" /\ stats.errs = 0 /\ stats.fresh = 0) =>
              /\ raw_res.kind = "Timeout"
              /\ quarter_waits = 5
              /\ stats.reads = 2
              /\ stats.qsleeps = 1
      ]_vars

C16_Witness ==
    /\ ReadReturned /\ drv.sc = "OneShot" /\ raw_res.kind = "Timeout"
    /\ quarter_waits = 5 /\ stats.reads = 2 /\ stats.qsleeps = 1 /\ stats.fulls = 1

\* C17: a transport failure inside read_value_raw / read_value_normalized is
\* never retried or absorbed: the step in which the trigger write or a poll
\* read fails returns the I2c error wrapping a transport error, issues no
\* transaction, starts no sleep and leaves the cache alone; the failure is the
\* last thing the call does (a failed trigger write is followed by no coarse
\* wait and no read).
C17_NoRetry ==
    [][ /\ (pc \in InReadSet /\ stats'.errs = stats.errs + 1) =>
              /\ pc' = "returned"
              /\ raw_res'.kind = "I2c"
              /\ raw_res'.err \in BusErrors
              /\ result' = raw_res'
              /\ stats'.reads = stats.reads
              /\ stats'.writes = stats.writes
              /\ stats'.qsleeps = stats.qsleeps
              /\ stats'.fulls = stats.fulls
              /\ timer' = timer
              /\ quarter_waits' = quarter_waits
              /\ drv' = drv
        /\ (ReadOp /\ stats.errs > 0) =>
              /\ pc = "returned"
              /\ stats.errs = 1
              /\ raw_res.kind = "I2c"
              /\ result = raw_res
              /\ stats.reads = 0 =>
                    (stats.writes = 1 /\ stats.fulls = 0 /\ stats.qsleeps = 0)
      ]_vars

C17_Witness ==
    /\ ReadReturned /\ op = "read_value_normalized" /\ drv.sc = "OneShot"
    /\ result = [kind |-> "I2c", err |-> "Nack"]
    /\ stats.writes = 1 /\ stats.reads = 0 /\ stats.fulls = 0

\* C18: once a driver exists its cached mode, rate and gain are overwritten
\* only by a write_settings whose write succeeded: no step of read_value_raw
\* or read_value_normalized changes the cache or the bus address, whatever
\* the outcome (Ok, Timeout, transport error), in OneShot mode with its
\* trigger write too, and also when the status byte read back encodes another
\* mode, rate or gain than the cache.
C18_ReadsKeepCache ==
    [][ /\ (pc \in InReadSet \/ (pc = "idle" /\ pc' \in InReadSet)) => drv' = drv
        /\ (drv # NoDrv /\ drv' # drv) =>
              \/ /\ pc = "ws_write"
                 /\ result'.kind = "Ok"
                 /\ drv'.addr = drv.addr
              \/ /\ pc = "idle"
                 /\ op' = "release"
                 /\ drv' = NoDrv
      ]_vars

C18_Witness ==
    /\ ReadReturned /\ raw_res.kind = "Ok" /\ drv.sc = "OneShot"
    /\ Len(buf) = 3 /\ DevRegister(buf[3]) # Fields(drv)
    /\ stats.writes = 1

\* C19: a successful new has issued exactly one read of 3 bytes and no
\* write, started no sleep, and whatever status/config byte b that read
\* returned (any DataReady bit, any unused bits, any data bytes) the new
\* driver caches the mode, rate and gain decoded from b, at the resolved
\* address, and owns the bus handle.
C19_Bootstrap ==
    (pc = "returned" /\ op = "new" /\ result.kind = "Ok") =>
        /\ stats.reads = 1
        /\ stats.writes = 0
        /\ wr = <<>>
        /\ stats.qsleeps = 0 /\ stats.fulls = 0
        /\ Len(buf) = 3
        /\ Fields(drv) = Fields(ReadSettingsFrom(buf[3]))
        /\ Fields(drv) = DevRegister(buf[3])
        /\ drv.addr = addru8
        /\ drv.addr = tx_addr
        /\ i2c \in Handles
        /\ caller_bus = NoBus

C19_Witness ==
    /\ pc = "returned" /\ op = "new" /\ result.kind = "Ok"
    /\ buf = <<255, 255, 245>>
    /\ Fields(drv) = [sc |-> "OneShot", dr |-> "Sps60", pga |-> "X2"]

\* C20: against a device that keeps its register (set by each successful
\* one-byte write, untouched by a failed one, reported by every read), the
\* cached mode, rate and gain equal the device register whenever a driver
\* exists; the trigger write of read_value_raw carries the start bit plus the
\* configuration the device already holds, so its completion never changes
\* the register, and neither does a failed write or any read.
C20_Coherence ==
    [][ /\ drv # NoDrv => Fields(drv) = dev
        /\ drv' # NoDrv => Fields(drv') = dev'
        /\ pc = "raw_write" =>
              /\ Len(wr) = 1
              /\ wr[1] >= 128
              /\ DevRegister(wr[1]) = dev
              /\ dev' = dev
        /\ (pc = "ws_write" /\ result'.kind = "Err") => dev' = dev
        /\ pc \in {"raw_coarse", "raw_read", "raw_qsleep"} => dev' = dev
      ]_vars

C20_Witness ==
    /\ pc = "raw_coarse" /\ ReadOp
    /\ drv.sc = "OneShot" /\ drv.dr = "Sps30" /\ drv.pga = "X4"
    /\ wr = <<to_value(TriggerSettings(drv))>>
    /\ dev = Fields(drv)
    /\ stats.writes = 1

====
